---- MODULE Spec2Model ----
(***************************************************************************)
(* Swift bindings pipeline of uniffi (uniffi/src/bindings/swift/mod.rs):   *)
(* write_bindings, compile_bindings and run_script acting on a filesystem  *)
(* and on child processes.  Strings and paths are sequences of one-char    *)
(* strings, so that joining, concatenation and extension parsing are       *)
(* computed, not assumed.                                                  *)
(***************************************************************************)
EXTENDS Naturals, Sequences, FiniteSets, TLC

(* ------------------------------ bounds --------------------------------- *)

\* Number of events of one behaviour: calls of the three public operations
\* plus files dropped into the output directory by somebody else.
MaxEvents == 3

(* ------------------------- literals of the code ------------------------ *)

ModuleDirSuffix == <<".","s","w","i","f","t","m","o","d","u","l","e","-","d","i","r">>
ModuleMapName == <<"u","n","i","f","f","i",".","m","o","d","u","l","e","m","a","p">>
HeaderSuffix == <<"-","B","r","i","d","g","i","n","g","-","H","e","a","d","e","r",".","h">>
SwiftSuffix == <<".","s","w","i","f","t">>
LibPrefix == <<"l","i","b">>
DylibSuffix == <<".","d","y","l","i","b">>
ExtModuleDir == <<"s","w","i","f","t","m","o","d","u","l","e","-","d","i","r">>
ExtDylib == <<"d","y","l","i","b">>
ExtSo == <<"s","o">>
OptModuleMapFile == <<"-","f","m","o","d","u","l","e","-","m","a","p","-","f","i","l","e","=">>
OptLinkUniffi == <<"-","l","u","n","i","f","f","i","_">>
OptLink == <<"-","l">>
ArgModuleName == <<"-","m","o","d","u","l","e","-","n","a","m","e">>
ArgEmitLibrary == <<"-","e","m","i","t","-","l","i","b","r","a","r","y">>
ArgO == <<"-","o">>
ArgEmitModule == <<"-","e","m","i","t","-","m","o","d","u","l","e">>
ArgEmitModulePath == <<"-","e","m","i","t","-","m","o","d","u","l","e","-","p","a","t","h">>
ArgParseAsLibrary == <<"-","p","a","r","s","e","-","a","s","-","l","i","b","r","a","r","y">>
ArgL == <<"-","L">>
ArgI == <<"-","I">>
ArgXcc == <<"-","X","c","c">>
Swiftc == "swiftc"
Swift == "swift"
MsgHeader == "failed to render Swift bridging header"
MsgLibrary == "failed to render Swift library"
MsgModuleMap == "failed to render Swift module map"
\* The code's two messages put the tool name in backquotes, which a TLA+
\* string cannot hold: "running [swiftc] failed" with backquotes for brackets.
MsgSwiftc == "running swiftc failed"
MsgSwift == "running swift failed"

(* ------------------------------ inputs --------------------------------- *)

NsA == <<"a">>
NsB == <<"b">>
Namespaces == {NsA, NsB}

\* The output directory handed to the three operations, and a script file
\* that lives outside of it.
OutDir == <<"/","o">>
ScriptPath == <<"/","t",".","s","w">>

\* Interface descriptions: a namespace, the content the templates read
\* (api), and the template that fails to render for it, if any.
Interfaces ==
    { [namespace |-> NsA, api |-> 1, broken |-> "none"],
      [namespace |-> NsB, api |-> 1, broken |-> "none"],
      [namespace |-> NsA, api |-> 2, broken |-> "header"],
      [namespace |-> NsB, api |-> 2, broken |-> "library"],
      [namespace |-> NsA, api |-> 3, broken |-> "modulemap"] }

\* compile_bindings reads the namespace only: one description of each.
CompileInterfaces == {c \in Interfaces : c.broken = "none"}

NoInterface == [namespace |-> <<>>, api |-> 0, broken |-> "none"]

\* Names of files that something other than this pipeline puts directly
\* into the output directory.
ForeignNames ==
    { <<"x",".","s","o">>, <<".","d","y","l","i","b">>, <<"r">> }

\* Name of a shared library that something else puts inside a module
\* directory, one level below the output directory.
NestedName == <<"y",".","s","o">>

(* ------------------------- Option<&Path> ------------------------------- *)

None == [some |-> FALSE, path |-> <<>>]
Some(p) == [some |-> TRUE, path |-> p]

(* ------------------------ std::path arithmetic ------------------------- *)

LastIndexOf(s, c) ==
    LET I == {i \in 1..Len(s) : s[i] = c}
    IN  IF I = {} THEN 0 ELSE CHOOSE i \in I : \A j \in I : j <= i

IsAbsolute(p) == Len(p) > 0 /\ p[1] = "/"

\* PathBuf::push: an absolute component replaces the path, otherwise it is
\* joined with one separator (none after an empty path or a separator).
Push(p, c) ==
    IF IsAbsolute(c) THEN c
    ELSE IF p = <<>> THEN c
    ELSE IF p[Len(p)] = "/" THEN p \o c
    ELSE p \o <<"/">> \o c

FileName(p) == SubSeq(p, LastIndexOf(p, "/") + 1, Len(p))

Parent(p) ==
    LET i == LastIndexOf(p, "/")
    IN  IF i = 0 THEN <<>> ELSE IF i = 1 THEN <<"/">> ELSE SubSeq(p, 1, i - 1)

\* Path::extension: what follows the last dot of the file name; none when
\* the name has no dot, is "..", or has its only dot in front.
Extension(p) ==
    LET name == FileName(p)
        i == LastIndexOf(name, ".")
    IN  IF name = <<".", ".">> \/ i <= 1 THEN None
        ELSE Some(SubSeq(name, i + 1, Len(name)))

StartsWith(s, start) == Len(s) >= Len(start) /\ SubSeq(s, 1, Len(start)) = start

(* --------------------------- layout planning --------------------------- *)

\* One module directory shared by every namespace.
M_WriteModuleDir(out, ns) == Push(out, <<"u">> \o ModuleDirSuffix)

\* write_bindings, lines 33-34
WriteModuleDir(out, ns) == Push(out, ns \o ModuleDirSuffix)

\* write_bindings, lines 37-38
WriteModuleMapFile(mdir) == Push(mdir, ModuleMapName)

\* write_bindings, lines 40-41
WriteHeaderFile(mdir, ns) == Push(mdir, ns \o HeaderSuffix)

\* The source file planned inside the module directory.
M_WriteSourceFile(out, ns) == Push(Push(out, ns \o ModuleDirSuffix), ns \o SwiftSuffix)

\* write_bindings, lines 43-44
WriteSourceFile(out, ns) == Push(out, ns \o SwiftSuffix)

(* ------------------------------ rendering ------------------------------ *)

NoText == [artifact |-> "none", namespace |-> <<>>, api |-> 0, header |-> <<>>, whole |-> TRUE]

HeaderText(c) ==
    [artifact |-> "header", namespace |-> c.namespace, api |-> c.api, header |-> <<>>, whole |-> TRUE]

LibraryText(c) ==
    [artifact |-> "library", namespace |-> c.namespace, api |-> c.api, header |-> <<>>, whole |-> TRUE]

\* The module map names the header by the path it is given.
ModuleMapText(c, header_path) ==
    [artifact |-> "modulemap", namespace |-> c.namespace, api |-> c.api,
     header |-> header_path, whole |-> TRUE]

\* generate_bindings, lines 61-71, when both templates render
GenerateBindings(c) == [header |-> HeaderText(c), library |-> LibraryText(c)]

\* A module map that names the header by its file name only.
M_GenerateModuleMap(c, header_path) == ModuleMapText(c, FileName(header_path))

\* generate_module_map, lines 73-79, when the template renders
GenerateModuleMap(c, header_path) == ModuleMapText(c, header_path)

\* What a failed write! has put into the file: some proper prefix of the
\* text, the empty one included.
Prefix(text) == [text EXCEPT !.whole = FALSE]

(* --------------------------- filesystem -------------------------------- *)

\* A file opened for appending instead of truncated: what it held stays.
M_FileCreate(f, p) == [q \in DOMAIN f \cup {p} |-> IF q = p /\ q \notin DOMAIN f THEN <<>> ELSE f[q]]

\* The file contents after File::create: created empty or truncated.
FileCreate(f, p) == [q \in DOMAIN f \cup {p} |-> IF q = p THEN <<>> ELSE f[q]]

\* The file contents after writing text through the handle File::create
\* returned: the text follows what the file holds.
FileWrite(f, p, text) == [f EXCEPT ![p] = @ \o <<text>>]

\* File::create cannot succeed without the parent directory or on a directory.
CanCreate(d, p) == Parent(p) \in d /\ p \notin d

\* fs::create_dir_all creates the directory and its missing ancestors.
CreateDirAll(d, out, mdir) == d \cup {out, mdir}

\* The immediate entries of directory d: what read_dir iterates over.
EntryNames(ds, f, d) == {FileName(p) : p \in {q \in ds \cup DOMAIN f : Parent(q) = d}}

(* ------------------------- command lines ------------------------------- *)

\* The module map looked for directly under the output directory.
M_CompileModuleMapFile(out, ns) == Push(out, ModuleMapName)

\* compile_bindings, lines 85-87
CompileModuleMapFile(out, ns) == Push(Push(out, ns \o ModuleDirSuffix), ModuleMapName)

\* compile_bindings, lines 89-90
CompileModuleMapFileOption(mmf) == OptModuleMapFile \o mmf

\* compile_bindings, lines 92-93
CompileSourceFile(out, ns) == Push(out, ns \o SwiftSuffix)

\* compile_bindings, lines 95-96
CompileDylibFile(out, ns) == Push(out, LibPrefix \o ns \o DylibSuffix)

\* The source file given before the -Xcc pair.
M_CompileArgs(ns, out, dylib, option, source) ==
    << ArgModuleName, ns, ArgEmitLibrary, ArgO, dylib, ArgEmitModule,
       ArgEmitModulePath, out, ArgParseAsLibrary, ArgL, out,
       OptLinkUniffi \o ns, source, ArgXcc, option >>

\* compile_bindings, lines 103-118: the arguments given to swiftc
CompileArgs(ns, out, dylib, option, source) ==
    << ArgModuleName, ns, ArgEmitLibrary, ArgO, dylib, ArgEmitModule,
       ArgEmitModulePath, out, ArgParseAsLibrary, ArgL, out,
       OptLinkUniffi \o ns, ArgXcc, option, source >>

\* The library search path forgotten.
M_RunBaseArgs(out) == <<ArgI, out>>

\* run_script, line 132
RunBaseArgs(out) == <<ArgI, out, ArgL, out>>

\* The loop body without the test for "so".
M_EntryArgs(path) ==
    LET ext == Extension(path)
    IN  IF ~ext.some THEN <<>>
        ELSE IF ext.path = ExtModuleDir
             THEN <<ArgXcc, OptModuleMapFile \o Push(path, ModuleMapName)>>
        ELSE IF ext.path = ExtDylib
             THEN <<OptLink \o path>>
        ELSE <<>>

\* The module-map flag naming the module directory itself.
M_EntryArgsDirectory(path) ==
    LET ext == Extension(path)
    IN  IF ~ext.some THEN <<>>
        ELSE IF ext.path = ExtModuleDir
             THEN <<ArgXcc, OptModuleMapFile \o path>>
        ELSE IF ext.path = ExtDylib \/ ext.path = ExtSo
             THEN <<OptLink \o path>>
        ELSE <<>>

\* run_script, lines 135-148: what one directory entry adds to the command
EntryArgs(path) ==
    LET ext == Extension(path)
    IN  IF ~ext.some THEN <<>>
        ELSE IF ext.path = ExtModuleDir
             THEN <<ArgXcc, OptModuleMapFile \o Push(path, ModuleMapName)>>
        ELSE IF ext.path = ExtDylib \/ ext.path = ExtSo
             THEN <<OptLink \o path>>
        ELSE <<>>

\* run_script, lines 152-154
ScriptArgs(script) == IF script.some THEN <<script.path>> ELSE <<>>

\* What the compiler leaves at the path given with -o when it succeeds.
DylibText(module_name) ==
    [artifact |-> "dylib", namespace |-> module_name, api |-> 0, header |-> <<>>, whole |-> TRUE]

ForeignText == [artifact |-> "foreign", namespace |-> <<>>, api |-> 0, header |-> <<>>, whole |-> TRUE]

(* ------------------------------- state --------------------------------- *)

VARIABLES
    dirs,             \* the directories that exist at or below OutDir
    files,            \* path of each existing file |-> the texts it holds
    pc,               \* the statement the running operation is at, or "idle"
    op,               \* the operation running, or the last one that ran
    ci,               \* its interface description
    out_dir,          \* its out_dir (an Option for run_script)
    script_file,      \* run_script's script_file
    module_dir,       \* locals of the operation, <<>> while not assigned
    module_map_file,
    header_file,
    source_file,
    dylib_file,
    header,           \* the rendered texts, NoText while not rendered
    library,
    module_map,
    cmd,              \* the Command being built: program and arguments
    scan,             \* entries read_dir has yet to return
    seen,             \* entries read_dir has returned, in order
    child,            \* the child process of the operation
    result,           \* what the last operation returned
    failed_at,        \* the statement that made it fail
    pre,              \* the filesystem when the operation was called
    first,            \* per interface, the files its first successful write left
    events            \* number of events so far

fs == <<dirs, files>>
paths == <<module_dir, module_map_file, header_file, source_file, dylib_file>>
texts == <<header, library, module_map>>
proc == <<cmd, scan, seen, child>>
call == <<op, ci, out_dir, script_file, pre>>
vars == <<dirs, files, pc, op, ci, out_dir, script_file, module_dir,
          module_map_file, header_file, source_file, dylib_file, header,
          library, module_map, cmd, scan, seen, child, result, failed_at,
          pre, first, events>>

NoCommand == [program |-> "", args |-> <<>>]
NoChild == [state |-> "none", program |-> "", args |-> <<>>, success |-> FALSE]
Running == [tag |-> "Running", msg |-> ""]
Ok == [tag |-> "Ok", msg |-> ""]
\* std::io::Error converted by the ? operator: it carries the OS error only.
IoError == [tag |-> "Io", msg |-> "os error"]
\* anyhow!(..) and bail!(..): a message.
Message(m) == [tag |-> "Msg", msg |-> m]

Init ==
    /\ dirs \in {{}, {OutDir}}
    /\ files = <<>>
    /\ pc = "idle"
    /\ op = "none"
    /\ ci = NoInterface
    /\ out_dir = None
    /\ script_file = None
    /\ module_dir = <<>>
    /\ module_map_file = <<>>
    /\ header_file = <<>>
    /\ source_file = <<>>
    /\ dylib_file = <<>>
    /\ header = NoText
    /\ library = NoText
    /\ module_map = NoText
    /\ cmd = NoCommand
    /\ scan = {}
    /\ seen = <<>>
    /\ child = NoChild
    /\ result = Ok
    /\ failed_at = "none"
    /\ pre = [dirs |-> {}, files |-> <<>>]
    /\ first = <<>>
    /\ events = 0

\* A public operation is called.
Enter(o, c, out, script) ==
    /\ pc = "idle"
    /\ events < MaxEvents
    /\ events' = events + 1
    /\ op' = o
    /\ ci' = c
    /\ out_dir' = out
    /\ script_file' = script
    /\ pre' = [dirs |-> dirs, files |-> files]
    /\ result' = Running
    /\ UNCHANGED <<failed_at, texts, scan, seen, child, fs, first>>

\* The ? operator, bail! and the final Ok(()): the operation returns.
Return(r) ==
    /\ pc' = "returned"
    /\ result' = r
    /\ failed_at' = IF r = Ok THEN "none" ELSE pc

\* The caller has the result; the locals of the call are dropped.
Drop ==
    /\ pc = "returned"
    /\ pc' = "idle"
    /\ op' = "none"
    /\ ci' = NoInterface
    /\ out_dir' = None
    /\ script_file' = None
    /\ module_dir' = <<>>
    /\ module_map_file' = <<>>
    /\ header_file' = <<>>
    /\ source_file' = <<>>
    /\ dylib_file' = <<>>
    /\ header' = NoText
    /\ library' = NoText
    /\ module_map' = NoText
    /\ cmd' = NoCommand
    /\ scan' = {}
    /\ seen' = <<>>
    /\ child' = NoChild
    /\ result' = Ok
    /\ failed_at' = "none"
    /\ pre' = [dirs |-> {}, files |-> <<>>]
    /\ UNCHANGED <<fs, first, events>>

(* --------------------------- write_bindings ---------------------------- *)

\* lines 26-34: the call, out_path and module_dir
WriteBindings ==
    \E c \in Interfaces :
        /\ Enter("write_bindings", c, Some(OutDir), None)
        /\ module_dir' = WriteModuleDir(OutDir, c.namespace)
        /\ pc' = "w_create_dir_all"
        /\ UNCHANGED <<module_map_file, header_file, source_file, dylib_file, cmd>>

\* line 35: fs::create_dir_all(&module_dir)?
WCreateDirAll ==
    /\ pc = "w_create_dir_all"
    /\ \/ /\ out_dir.path \notin DOMAIN files
          /\ module_dir \notin DOMAIN files
          /\ dirs' = CreateDirAll(dirs, out_dir.path, module_dir)
          /\ pc' = "w_plan"
          /\ UNCHANGED <<result, failed_at>>
       \/ \* it fails, having created nothing or the ancestors only
          /\ dirs' \in {dirs, dirs \cup ({out_dir.path} \ DOMAIN files)}
          /\ Return(IoError)
    /\ UNCHANGED <<files, call, paths, texts, proc, first, events>>

\* lines 37-44: module_map_file, header_file, source_file
WPlan ==
    /\ pc = "w_plan"
    /\ module_map_file' = WriteModuleMapFile(module_dir)
    /\ header_file' = WriteHeaderFile(module_dir, ci.namespace)
    /\ source_file' = WriteSourceFile(out_dir.path, ci.namespace)
    /\ pc' = "w_generate_bindings"
    /\ UNCHANGED <<fs, call, module_dir, dylib_file, texts, proc, result,
                   failed_at, first, events>>
\* A render that fails only after the header file has been created.
M_WGenerateBindings ==
    /\ pc = "w_generate_bindings"
    /\ \/ /\ ci.broken = "header"
          /\ files' = FileCreate(files, header_file)
          /\ Return(Message(MsgHeader))
          /\ UNCHANGED texts
       \/ /\ ci.broken = "library"
          /\ files' = FileCreate(files, header_file)
          /\ Return(Message(MsgLibrary))
          /\ UNCHANGED texts
       \/ /\ ci.broken \notin {"header", "library"}
          /\ header' = GenerateBindings(ci).header
          /\ library' = GenerateBindings(ci).library
          /\ pc' = "w_create_header"
          /\ UNCHANGED <<files, module_map, result, failed_at>>
    /\ UNCHANGED <<dirs, call, paths, proc, first, events>>


\* line 46 and generate_bindings, lines 61-71
WGenerateBindings ==
    /\ pc = "w_generate_bindings"
    /\ \/ /\ ci.broken = "header"
          /\ Return(Message(MsgHeader))
          /\ UNCHANGED texts
       \/ /\ ci.broken = "library"
          /\ Return(Message(MsgLibrary))
          /\ UNCHANGED texts
       \/ /\ ci.broken \notin {"header", "library"}
          /\ header' = GenerateBindings(ci).header
          /\ library' = GenerateBindings(ci).library
          /\ pc' = "w_create_header"
          /\ UNCHANGED <<module_map, result, failed_at>>
    /\ UNCHANGED <<fs, call, paths, proc, first, events>>

\* File::create(p)? at statement `here`, going on at `next`
WCreate(here, p, next) ==
    /\ pc = here
    /\ \/ /\ CanCreate(dirs, p)
          /\ files' = FileCreate(files, p)
          /\ pc' = next
          /\ UNCHANGED <<result, failed_at>>
       \/ /\ Return(IoError)
          /\ UNCHANGED files
    /\ UNCHANGED <<dirs, call, paths, texts, proc, first, events>>

\* A failed write cleaned up: the partly written file is removed.
M_WWrite(here, p, text, next) ==
    /\ pc = here
    /\ \/ /\ files' = FileWrite(files, p, text)
          /\ pc' = next
          /\ UNCHANGED <<result, failed_at>>
       \/ /\ files' = [q \in DOMAIN files \ {p} |-> files[q]]
          /\ Return(IoError)
    /\ UNCHANGED <<dirs, call, paths, texts, proc, first, events>>

\* write!(f, "{}", text)? at statement `here`: on failure a prefix of the
\* text has been written.
WWrite(here, p, text, next) ==
    /\ pc = here
    /\ \/ /\ files' = FileWrite(files, p, text)
          /\ pc' = next
          /\ UNCHANGED <<result, failed_at>>
       \/ /\ files' = FileWrite(files, p, Prefix(text))
          /\ Return(IoError)
    /\ UNCHANGED <<dirs, call, paths, texts, proc, first, events>>

\* line 48
WCreateHeader == WCreate("w_create_header", header_file, "w_write_header")

\* line 49
WWriteHeader == WWrite("w_write_header", header_file, header, "w_create_module_map")

\* line 51
WCreateModuleMap == WCreate("w_create_module_map", module_map_file, "w_generate_module_map")

\* line 52, the argument of write!: generate_module_map(&ci, &header_file)?
WGenerateModuleMap ==
    /\ pc = "w_generate_module_map"
    /\ \/ /\ ci.broken = "modulemap"
          /\ Return(Message(MsgModuleMap))
          /\ UNCHANGED texts
       \/ /\ ci.broken # "modulemap"
          /\ module_map' = GenerateModuleMap(ci, header_file)
          /\ pc' = "w_write_module_map"
          /\ UNCHANGED <<header, library, result, failed_at>>
    /\ UNCHANGED <<fs, call, paths, proc, first, events>>

\* line 52, the write
WWriteModuleMap == WWrite("w_write_module_map", module_map_file, module_map, "w_create_source")

\* line 54
WCreateSource == WCreate("w_create_source", source_file, "w_write_source")

\* lines 55-57: the last write, and Ok(())
WWriteSource ==
    /\ pc = "w_write_source"
    /\ \/ /\ files' = FileWrite(files, source_file, library)
          /\ pc' = "returned"
          /\ result' = Ok
          /\ first' = IF ci \in DOMAIN first THEN first
                      ELSE [c \in DOMAIN first \cup {ci} |->
                              IF c = ci THEN [p \in {header_file, module_map_file, source_file} |-> files'[p]]
                              ELSE first[c]]
          /\ UNCHANGED failed_at
       \/ /\ files' = FileWrite(files, source_file, Prefix(library))
          /\ Return(IoError)
          /\ UNCHANGED first
    /\ UNCHANGED <<dirs, call, paths, texts, proc, events>>

(* ------------------------- child processes ----------------------------- *)

\* cmd.spawn()? at statement `here`
Spawn(here, next) ==
    /\ pc = here
    /\ \/ /\ child' = [state |-> "running", program |-> cmd.program,
                       args |-> cmd.args, success |-> FALSE]
          /\ pc' = next
          /\ UNCHANGED <<result, failed_at>>
       \/ /\ Return(IoError)
          /\ UNCHANGED child
    /\ UNCHANGED <<fs, call, paths, texts, cmd, scan, seen, first, events>>

\* What the filesystem holds when the child has exited successfully: the
\* compiler has written the library at the path that follows -o.
ChildOutput(f, c) ==
    IF c.program = Swiftc
    THEN [q \in DOMAIN f \cup {c.args[5]} |->
            IF q = c.args[5] THEN <<DylibText(c.args[2])>> ELSE f[q]]
    ELSE f

\* The compiler cannot succeed when it cannot create its output.
ChildCanSucceed(d, c) == c.program = Swiftc => CanCreate(d, c.args[5])

\* A wait that polls instead of blocking: the call may go on while the child
\* is still running.
M_Wait(here, next) ==
    /\ pc = here
    /\ child.state = "running"
    /\ \/ /\ ChildCanSucceed(dirs, child)
          /\ child' = [child EXCEPT !.state = "exited", !.success = TRUE]
          /\ files' = ChildOutput(files, child)
          /\ pc' = next
          /\ UNCHANGED <<result, failed_at>>
       \/ /\ child' = [child EXCEPT !.state = "exited", !.success = FALSE]
          /\ pc' = next
          /\ UNCHANGED <<files, result, failed_at>>
       \/ /\ pc' = next
          /\ UNCHANGED <<child, files, result, failed_at>>
       \/ /\ child' = [child EXCEPT !.state = "gone"]
          /\ Return(IoError)
          /\ UNCHANGED files
    /\ UNCHANGED <<dirs, call, paths, texts, cmd, scan, seen, first, events>>

\* .wait()? at statement `here`: the call blocks until the child has exited.
Wait(here, next) ==
    /\ pc = here
    /\ child.state = "running"
    /\ \/ /\ ChildCanSucceed(dirs, child)
          /\ child' = [child EXCEPT !.state = "exited", !.success = TRUE]
          /\ files' = ChildOutput(files, child)
          /\ pc' = next
          /\ UNCHANGED <<result, failed_at>>
       \/ /\ child' = [child EXCEPT !.state = "exited", !.success = FALSE]
          /\ pc' = next
          /\ UNCHANGED <<files, result, failed_at>>
       \/ \* the wait itself fails: the child is gone, its status unknown
          /\ child' = [child EXCEPT !.state = "gone"]
          /\ Return(IoError)
          /\ UNCHANGED files
    /\ UNCHANGED <<dirs, call, paths, texts, cmd, scan, seen, first, events>>

\* The exit status ignored.
M_Status(here, msg) ==
    /\ pc = here
    /\ Return(Ok)
    /\ UNCHANGED <<fs, call, paths, texts, proc, first, events>>

\* if !status.success() { bail!(msg) } Ok(())
Status(here, msg) ==
    /\ pc = here
    /\ Return(IF child.success THEN Ok ELSE Message(msg))
    /\ UNCHANGED <<fs, call, paths, texts, proc, first, events>>

(* -------------------------- compile_bindings --------------------------- *)

\* lines 82-118: the call, the paths and the command
CompileBindings ==
    \E c \in CompileInterfaces :
        /\ Enter("compile_bindings", c, Some(OutDir), None)
        /\ module_map_file' = CompileModuleMapFile(OutDir, c.namespace)
        /\ source_file' = CompileSourceFile(OutDir, c.namespace)
        /\ dylib_file' = CompileDylibFile(OutDir, c.namespace)
        /\ cmd' = [program |-> Swiftc,
                   args |-> CompileArgs(c.namespace, OutDir, dylib_file',
                              CompileModuleMapFileOption(module_map_file'),
                              source_file')]
        /\ pc' = "c_spawn"
        /\ UNCHANGED <<module_dir, header_file>>

\* line 119
CSpawn == Spawn("c_spawn", "c_wait")

\* line 120
CWait == Wait("c_wait", "c_status")

\* An unsuccessful exit reported as the last OS error.
M_CStatus ==
    /\ pc = "c_status"
    /\ Return(IF child.success THEN Ok ELSE IoError)
    /\ UNCHANGED <<fs, call, paths, texts, proc, first, events>>

\* lines 121-124
CStatus == Status("c_status", MsgSwiftc)

(* ------------------------------ run_script ----------------------------- *)

\* lines 127-132: the call and the first four arguments
RunScript ==
    \E od \in {None, Some(OutDir)}, sf \in {None, Some(ScriptPath)} :
        /\ Enter("run_script", NoInterface, od, sf)
        /\ cmd' = [program |-> Swift,
                   args |-> IF od.some THEN RunBaseArgs(od.path) ELSE <<>>]
        /\ pc' = IF od.some THEN "r_read_dir" ELSE "r_script"
        /\ UNCHANGED paths

\* line 133: PathBuf::from(out_dir).read_dir()?
RReadDir ==
    /\ pc = "r_read_dir"
    /\ \/ /\ out_dir.path \in dirs
          /\ scan' = EntryNames(dirs, files, out_dir.path)
          /\ pc' = "r_entry"
          /\ UNCHANGED <<result, failed_at>>
       \/ /\ Return(IoError)
          /\ UNCHANGED scan
    /\ UNCHANGED <<fs, call, paths, texts, cmd, seen, child, first, events>>

\* The arguments with the flags of a module directory put in front of the
\* link flags collected so far.
Grouped(args, new) ==
    LET L == {i \in 5..Len(args) : StartsWith(args[i], OptLink)}
        k == IF L = {} THEN Len(args) + 1 ELSE CHOOSE i \in L : \A j \in L : i <= j
    IN  IF new # <<>> /\ new[1] = ArgXcc
        THEN SubSeq(args, 1, k - 1) \o new \o SubSeq(args, k, Len(args))
        ELSE args \o new

\* The loop keeping the module-map-file flags before the link flags.
M_REntry ==
    /\ pc = "r_entry"
    /\ \/ \E name \in scan :
            /\ cmd' = [cmd EXCEPT !.args = Grouped(@, EntryArgs(Push(out_dir.path, name)))]
            /\ scan' = scan \ {name}
            /\ seen' = Append(seen, name)
            /\ UNCHANGED <<pc, result, failed_at>>
       \/ /\ scan # {}
          /\ Return(IoError)
          /\ UNCHANGED <<cmd, scan, seen>>
       \/ /\ scan = {}
          /\ pc' = "r_script"
          /\ UNCHANGED <<cmd, scan, seen, result, failed_at>>
    /\ UNCHANGED <<fs, call, paths, texts, child, first, events>>

\* lines 133-149: one turn of the loop; the iterator returns the entries
\* in any order.
REntry ==
    /\ pc = "r_entry"
    /\ \/ \E name \in scan :
            /\ cmd' = [cmd EXCEPT !.args = @ \o EntryArgs(Push(out_dir.path, name))]
            /\ scan' = scan \ {name}
            /\ seen' = Append(seen, name)
            /\ UNCHANGED <<pc, result, failed_at>>
       \/ \* let entry = entry?
          /\ scan # {}
          /\ Return(IoError)
          /\ UNCHANGED <<cmd, scan, seen>>
       \/ /\ scan = {}
          /\ pc' = "r_script"
          /\ UNCHANGED <<cmd, scan, seen, result, failed_at>>
    /\ UNCHANGED <<fs, call, paths, texts, child, first, events>>

\* The script put in front of the arguments.
M_RScript ==
    /\ pc = "r_script"
    /\ cmd' = [cmd EXCEPT !.args = ScriptArgs(script_file) \o @]
    /\ pc' = "r_spawn"
    /\ UNCHANGED <<fs, call, paths, texts, scan, seen, child, result, failed_at,
                   first, events>>

\* lines 152-154
RScript ==
    /\ pc = "r_script"
    /\ cmd' = [cmd EXCEPT !.args = @ \o ScriptArgs(script_file)]
    /\ pc' = "r_spawn"
    /\ UNCHANGED <<fs, call, paths, texts, scan, seen, child, result, failed_at,
                   first, events>>

\* line 156, spawn
RSpawn == Spawn("r_spawn", "r_wait")

\* line 156, wait
RWait == Wait("r_wait", "r_status")

\* lines 156-159
RStatus == Status("r_status", MsgSwift)

(* ---------------------------- environment ------------------------------ *)

\* Between two calls something else puts a file into the output directory.
PutForeign ==
    \E name \in ForeignNames :
        /\ pc = "idle"
        /\ events < MaxEvents
        /\ OutDir \in dirs
        /\ Push(OutDir, name) \notin DOMAIN files
        /\ files' = [q \in DOMAIN files \cup {Push(OutDir, name)} |->
                       IF q = Push(OutDir, name) THEN <<ForeignText>> ELSE files[q]]
        /\ events' = events + 1
        /\ UNCHANGED <<dirs, pc, call, paths, texts, proc, result, failed_at, first>>

\* Between two calls something else puts a shared library into a module
\* directory.
PutNested ==
    \E d \in dirs \ {OutDir} :
        /\ pc = "idle"
        /\ events < MaxEvents
        /\ Push(d, NestedName) \notin DOMAIN files
        /\ files' = [q \in DOMAIN files \cup {Push(d, NestedName)} |->
                       IF q = Push(d, NestedName) THEN <<ForeignText>> ELSE files[q]]
        /\ events' = events + 1
        /\ UNCHANGED <<dirs, pc, call, paths, texts, proc, result, failed_at, first>>

Next ==
    \/ WriteBindings
    \/ WCreateDirAll
    \/ WPlan
    \/ WGenerateBindings
    \/ WCreateHeader
    \/ WWriteHeader
    \/ WCreateModuleMap
    \/ WGenerateModuleMap
    \/ WWriteModuleMap
    \/ WCreateSource
    \/ WWriteSource
    \/ CompileBindings
    \/ CSpawn
    \/ CWait
    \/ CStatus
    \/ RunScript
    \/ RReadDir
    \/ REntry
    \/ RScript
    \/ RSpawn
    \/ RWait
    \/ RStatus
    \/ Drop
    \/ PutForeign
    \/ PutNested

Spec == Init /\ [][Next]_vars

(* ------------------------- expected values ----------------------------- *)
(* The paths and command lines the claims name, spelled out.               *)

\* "/o/a.swiftmodule-dir"
ModuleDirA == <<"/","o","/","a",".","s","w","i","f","t","m","o","d","u","l","e","-","d","i","r">>
\* "/o/a.swiftmodule-dir/uniffi.modulemap"
ModuleMapA ==
    <<"/","o","/","a",".","s","w","i","f","t","m","o","d","u","l","e","-","d","i","r","/","u","n","i","f","f","i",".","m","o","d","u","l","e","m","a","p">>
\* "/o/a.swiftmodule-dir/a-Bridging-Header.h"
HeaderA ==
    <<"/","o","/","a",".","s","w","i","f","t","m","o","d","u","l","e","-","d","i","r","/","a","-","B","r","i","d","g","i","n","g","-","H","e","a","d","e","r",".","h">>
\* "/o/a.swift"
SourceA == <<"/","o","/","a",".","s","w","i","f","t">>

\* "/o/b.swiftmodule-dir"
ModuleDirB == <<"/","o","/","b",".","s","w","i","f","t","m","o","d","u","l","e","-","d","i","r">>
\* "/o/b.swiftmodule-dir/uniffi.modulemap"
ModuleMapB ==
    <<"/","o","/","b",".","s","w","i","f","t","m","o","d","u","l","e","-","d","i","r","/","u","n","i","f","f","i",".","m","o","d","u","l","e","m","a","p">>
\* "/o/b.swiftmodule-dir/b-Bridging-Header.h"
HeaderB ==
    <<"/","o","/","b",".","s","w","i","f","t","m","o","d","u","l","e","-","d","i","r","/","b","-","B","r","i","d","g","i","n","g","-","H","e","a","d","e","r",".","h">>
\* "/o/b.swift"
SourceB == <<"/","o","/","b",".","s","w","i","f","t">>

\* -module-name a -emit-library -o /o/liba.dylib -emit-module -emit-module-path /o -parse-as-library -L /o -luniffi_a -Xcc -fmodule-map-file=/o/a.swiftmodule-dir/uniffi.modulemap /o/a.swift
SwiftcArgsA ==
    << <<"-","m","o","d","u","l","e","-","n","a","m","e">>,
       <<"a">>,
       <<"-","e","m","i","t","-","l","i","b","r","a","r","y">>,
       <<"-","o">>,
       <<"/","o","/","l","i","b","a",".","d","y","l","i","b">>,
       <<"-","e","m","i","t","-","m","o","d","u","l","e">>,
       <<"-","e","m","i","t","-","m","o","d","u","l","e","-","p","a","t","h">>,
       <<"/","o">>,
       <<"-","p","a","r","s","e","-","a","s","-","l","i","b","r","a","r","y">>,
       <<"-","L">>,
       <<"/","o">>,
       <<"-","l","u","n","i","f","f","i","_","a">>,
       <<"-","X","c","c">>,
       <<"-","f","m","o","d","u","l","e","-","m","a","p","-","f","i","l","e","=","/","o","/","a",".","s","w","i","f","t","m","o","d","u","l","e","-","d","i","r","/","u","n","i","f","f","i",".","m","o","d","u","l","e","m","a","p">>,
       <<"/","o","/","a",".","s","w","i","f","t">> >>

\* -module-name b -emit-library -o /o/libb.dylib -emit-module -emit-module-path /o -parse-as-library -L /o -luniffi_b -Xcc -fmodule-map-file=/o/b.swiftmodule-dir/uniffi.modulemap /o/b.swift
SwiftcArgsB ==
    << <<"-","m","o","d","u","l","e","-","n","a","m","e">>,
       <<"b">>,
       <<"-","e","m","i","t","-","l","i","b","r","a","r","y">>,
       <<"-","o">>,
       <<"/","o","/","l","i","b","b",".","d","y","l","i","b">>,
       <<"-","e","m","i","t","-","m","o","d","u","l","e">>,
       <<"-","e","m","i","t","-","m","o","d","u","l","e","-","p","a","t","h">>,
       <<"/","o">>,
       <<"-","p","a","r","s","e","-","a","s","-","l","i","b","r","a","r","y">>,
       <<"-","L">>,
       <<"/","o">>,
       <<"-","l","u","n","i","f","f","i","_","b">>,
       <<"-","X","c","c">>,
       <<"-","f","m","o","d","u","l","e","-","m","a","p","-","f","i","l","e","=","/","o","/","b",".","s","w","i","f","t","m","o","d","u","l","e","-","d","i","r","/","u","n","i","f","f","i",".","m","o","d","u","l","e","m","a","p">>,
       <<"/","o","/","b",".","s","w","i","f","t">> >>

\* -I /o -L /o
SwiftBaseArgs ==
    << <<"-","I">>,
       <<"/","o">>,
       <<"-","L">>,
       <<"/","o">> >>
\* "-fmodule-map-file="
ModuleMapFlagStart == <<"-","f","m","o","d","u","l","e","-","m","a","p","-","f","i","l","e","=">>
\* "-l"
LinkFlagStart == <<"-","l">>


ExpectedModuleDir(ns) == IF ns = NsA THEN ModuleDirA ELSE ModuleDirB
ExpectedModuleMap(ns) == IF ns = NsA THEN ModuleMapA ELSE ModuleMapB
ExpectedHeader(ns) == IF ns = NsA THEN HeaderA ELSE HeaderB
ExpectedSource(ns) == IF ns = NsA THEN SourceA ELSE SourceB
ExpectedSwiftcArgs(ns) == IF ns = NsA THEN SwiftcArgsA ELSE SwiftcArgsB

Returned(o) == pc = "returned" /\ op = o
WriteOk == Returned("write_bindings") /\ result = Ok

(* ------------------------------- claims -------------------------------- *)

\* C1: a successful write_bindings into an output root that held nothing
\* leaves under it exactly the directory N.swiftmodule-dir, holding exactly
\* uniffi.modulemap and N-Bridging-Header.h, and the file N.swift, and
\* nothing else.
C1_ExactLayout ==
    (WriteOk /\ pre.files = <<>> /\ pre.dirs \subseteq {OutDir}) =>
        /\ dirs = {OutDir, ExpectedModuleDir(ci.namespace)}
        /\ DOMAIN files = { ExpectedModuleMap(ci.namespace),
                            ExpectedHeader(ci.namespace),
                            ExpectedSource(ci.namespace) }
        /\ EntryNames(dirs, files, OutDir)
             = {ci.namespace \o ModuleDirSuffix, ci.namespace \o SwiftSuffix}
        /\ EntryNames(dirs, files, ExpectedModuleDir(ci.namespace))
             = {ModuleMapName, ci.namespace \o HeaderSuffix}

C1_Witness ==
    WriteOk /\ pre.files = <<>> /\ pre.dirs = {} /\ ci.namespace = NsB

\* C2: every successful write_bindings for an interface description leaves
\* the header, the module map and the source file with the contents the
\* first successful one left (one text each, nothing appended), and when the
\* three files were there before the run, the run adds no path.
C2_RerunIdentical ==
    WriteOk =>
        /\ ci \in DOMAIN first
        /\ DOMAIN first[ci] = {header_file, module_map_file, source_file}
        /\ \A p \in DOMAIN first[ci] :
              p \in DOMAIN files /\ files[p] = first[ci][p] /\ Len(files[p]) = 1
        /\ ({header_file, module_map_file, source_file} \subseteq DOMAIN pre.files
              => DOMAIN files = DOMAIN pre.files /\ dirs = pre.dirs)

C2_Witness ==
    /\ WriteOk
    /\ \A p \in {header_file, module_map_file, source_file} :
          p \in DOMAIN pre.files /\ pre.files[p] = first[ci][p]

\* C3: the module map is rendered only once the header path is planned, and
\* the header path it is rendered with is the path the header file is
\* written at, out/N.swiftmodule-dir/N-Bridging-Header.h.
C3_ModuleMapNamesHeader ==
    /\ pc = "w_generate_module_map" => header_file = ExpectedHeader(ci.namespace)
    /\ (op = "write_bindings" /\ module_map # NoText) =>
          /\ module_map.header = ExpectedHeader(ci.namespace)
          /\ module_map.header = header_file
          /\ header_file \in DOMAIN files
          /\ files[header_file] = <<header>>
    /\ WriteOk =>
          /\ files[ExpectedModuleMap(ci.namespace)] = <<module_map>>
          /\ module_map.header \in DOMAIN files

C3_Witness ==
    /\ WriteOk
    /\ files[module_map_file][1].header = ExpectedHeader(NsA)
    /\ files[ExpectedHeader(NsA)][1].artifact = "header"

\* C4 as claimed: compile_bindings for a namespace whose module map does
\* not exist fails with an I/O error about the absent module map, a failure
\* that comes neither from spawning the compiler nor from its exit status.
C4_FailsOnAbsentModuleMap ==
    (Returned("compile_bindings") /\ module_map_file \notin DOMAIN pre.files) =>
        /\ result.tag = "Io"
        /\ failed_at \notin {"c_spawn", "c_wait", "c_status"}

\* C4 as amended: compile_bindings does not look for the module map; called
\* for a namespace whose module map does not exist it still spawns swiftc,
\* and when it fails the failure is the I/O error of spawning or waiting for
\* the compiler, or the toolchain error for its unsuccessful exit.
C4_FailureComesFromCompiler ==
    (Returned("compile_bindings") /\ module_map_file \notin DOMAIN pre.files) =>
        /\ module_map_file = ExpectedModuleMap(ci.namespace)
        /\ result = Ok => child.state = "exited" /\ child.success
        /\ result # Ok =>
              \/ failed_at = "c_spawn" /\ result = IoError /\ child.state = "none"
              \/ failed_at = "c_wait" /\ result = IoError /\ child.state = "gone"
              \/ /\ failed_at = "c_status"
                 /\ result = Message(MsgSwiftc)
                 /\ child.state = "exited"
                 /\ ~child.success

C4_Witness ==
    /\ Returned("compile_bindings")
    /\ ExpectedModuleMap(ci.namespace) \notin DOMAIN pre.files
    /\ ExpectedModuleDir(ci.namespace) \notin pre.dirs
    /\ result = Message(MsgSwiftc)

\* C5: the arguments compile_bindings gives to swiftc are, in this order,
\* -module-name N -emit-library -o out/libN.dylib -emit-module
\* -emit-module-path out -parse-as-library -L out -luniffi_N -Xcc
\* -fmodule-map-file=out/N.swiftmodule-dir/uniffi.modulemap out/N.swift
C5_SwiftcArguments ==
    op = "compile_bindings" =>
        /\ cmd.program = Swiftc
        /\ cmd.args = ExpectedSwiftcArgs(ci.namespace)
        /\ child.state # "none" =>
              child.program = Swiftc /\ child.args = ExpectedSwiftcArgs(ci.namespace)

C5_Witness ==
    op = "compile_bindings" /\ child.state = "running" /\ child.args = SwiftcArgsB

\* The command of run_script is complete: the next statement spawns it, or
\* it has been spawned.
RunArgsBuilt == op = "run_script" /\ pc \in {"r_spawn", "r_wait", "r_status"}

IsModuleMapFlag(token) == StartsWith(token, ModuleMapFlagStart)
IsLinkFlag(token) == StartsWith(token, LinkFlagStart)

LinkBeforeModuleMap(args) ==
    \E i, j \in 5..Len(args) : i < j /\ IsLinkFlag(args[i]) /\ IsModuleMapFlag(args[j])

\* C6 as claimed: whatever the directory holds and in whatever order the
\* scan returns it, -I out -L out come first and no link flag precedes a
\* module-map-file flag.
C6_ModuleMapsBeforeLinks ==
    (RunArgsBuilt /\ out_dir.some) =>
        /\ SubSeq(cmd.args, 1, 4) = SwiftBaseArgs
        /\ ~LinkBeforeModuleMap(cmd.args)

RECURSIVE ScanFlags(_)
ScanFlags(names) ==
    IF names = <<>> THEN <<>>
    ELSE EntryArgs(OutDir \o <<"/">> \o Head(names)) \o ScanFlags(Tail(names))

\* C6 as amended: -I out -L out come first, then the flags of the
\* discovered entries in the order in which the scan returned the entries
\* (module-map-file flags and link flags interleaved as they come: a link
\* flag precedes a module-map-file flag when the scan returns a shared
\* library before a module directory), then the script if one is given.
C6_FlagsInScanOrder ==
    (RunArgsBuilt /\ out_dir.some) =>
        /\ Len(seen) = Cardinality(EntryNames(pre.dirs, pre.files, OutDir))
        /\ {seen[i] : i \in 1..Len(seen)} = EntryNames(pre.dirs, pre.files, OutDir)
        /\ cmd.args = SwiftBaseArgs \o ScanFlags(seen) \o
                        (IF script_file.some THEN <<script_file.path>> ELSE <<>>)

C6_Witness ==
    RunArgsBuilt /\ out_dir.some /\ LinkBeforeModuleMap(cmd.args)

\* C7: run_script with an output directory that exists and has no entries
\* builds exactly -I out -L out, followed only by the script if one is given.
C7_EmptyDirectory ==
    (RunArgsBuilt /\ out_dir.some /\ EntryNames(pre.dirs, pre.files, out_dir.path) = {}) =>
        /\ cmd.args = SwiftBaseArgs \o
                        (IF script_file.some THEN <<script_file.path>> ELSE <<>>)
        /\ child.state # "none" => child.args = cmd.args
        /\ \A i \in 1..Len(cmd.args) :
              ~IsModuleMapFlag(cmd.args[i]) /\ ~IsLinkFlag(cmd.args[i])

C7_Witness ==
    /\ RunArgsBuilt
    /\ out_dir = Some(OutDir)
    /\ OutDir \in pre.dirs
    /\ EntryNames(pre.dirs, pre.files, OutDir) = {}
    /\ script_file.some
    /\ child.state = "running"

PlannedFiles(ns) == {ExpectedHeader(ns), ExpectedModuleMap(ns), ExpectedSource(ns)}

\* C8: when rendering one of the three artifacts fails, write_bindings
\* returns the render error and none of the three artifact files has been
\* created, truncated or modified.
C8_RenderFailureWritesNothing ==
    (Returned("write_bindings") /\ result.tag = "Msg") =>
        \A p \in PlannedFiles(ci.namespace) :
            /\ p \in DOMAIN files <=> p \in DOMAIN pre.files
            /\ p \in DOMAIN files => files[p] = pre.files[p]

Tool == IF op = "compile_bindings" THEN Swiftc ELSE Swift
ToolMessage == IF op = "compile_bindings" THEN MsgSwiftc ELSE MsgSwift

\* C9: compile_bindings and run_script return success only when the child
\* they spawned has been waited for and exited successfully, and when the
\* child exits unsuccessfully they return the failure that names the tool.
C9_ExitStatusDecides ==
    (Returned("compile_bindings") \/ Returned("run_script")) =>
        /\ result = Ok =>
              child.state = "exited" /\ child.success /\ child.program = Tool
        /\ (child.state = "exited" /\ ~child.success) =>
              result = Message(ToolMessage) /\ failed_at \in {"c_status", "r_status"}

C9_Witness ==
    /\ Returned("run_script")
    /\ child.state = "exited"
    /\ ~child.success
    /\ result = Message(MsgSwift)

\* Position i of the arguments is a flag or the value of -I or -L.
IsFlagPart(args, i) ==
    \/ args[i] \in {ArgI, ArgL, ArgXcc}
    \/ IsModuleMapFlag(args[i])
    \/ IsLinkFlag(args[i])
    \/ i > 1 /\ args[i - 1] \in {ArgI, ArgL}

\* C10: a script given to run_script occurs exactly once in the arguments,
\* as their last element after every flag; without a script there is no
\* positional argument, and with neither directory nor script no argument.
C10_ScriptLast ==
    RunArgsBuilt =>
        /\ script_file.some =>
              /\ Len(cmd.args) >= 1
              /\ cmd.args[Len(cmd.args)] = script_file.path
              /\ Cardinality({i \in 1..Len(cmd.args) : cmd.args[i] = script_file.path}) = 1
              /\ \A i \in 1..(Len(cmd.args) - 1) : IsFlagPart(cmd.args, i)
        /\ ~script_file.some => \A i \in 1..Len(cmd.args) : IsFlagPart(cmd.args, i)
        /\ (~script_file.some /\ ~out_dir.some) => cmd.args = <<>>
        /\ child.state # "none" => child.args = cmd.args

C10_Witness ==
    /\ RunArgsBuilt
    /\ script_file.some
    /\ out_dir.some
    /\ Len(cmd.args) >= 7
    /\ child.state = "running"

\* The name ends in a dot and ext, with something in front of the dot.
EndsInDot(name, ext) ==
    /\ Len(name) > Len(ext) + 1
    /\ SubSeq(name, Len(name) - Len(ext), Len(name)) = <<".">> \o ext

IsModuleDirEntry(name) == EndsInDot(name, <<"s","w","i","f","t","m","o","d","u","l","e","-","d","i","r">>)
IsLibraryEntry(name) ==
    EndsInDot(name, <<"d","y","l","i","b">>) \/ EndsInDot(name, <<"s","o">>)

\* "/o/" name
UnderOut(name) == <<"/","o","/">> \o name
\* "-fmodule-map-file=/o/" name "/uniffi.modulemap"
ModuleMapFlagOf(name) ==
    ModuleMapFlagStart \o UnderOut(name) \o <<"/","u","n","i","f","f","i",".","m","o","d","u","l","e","m","a","p">>
\* "-l/o/" name
LinkFlagOf(name) == LinkFlagStart \o UnderOut(name)

Occurrences(args, token) == {i \in 1..Len(args) : args[i] = token}

\* C11: run_script scans the immediate entries of the output directory
\* only, and adds exactly one module-map-file flag, for
\* <entry>/uniffi.modulemap, per entry with extension swiftmodule-dir,
\* exactly one link flag with the full entry path per entry with extension
\* dylib or so, and nothing for any other entry.
C11_OneFlagPerMatch ==
    (RunArgsBuilt /\ out_dir.some) =>
        LET E == EntryNames(pre.dirs, pre.files, OutDir)
            M == {e \in E : IsModuleDirEntry(e)}
            S == {e \in E : IsLibraryEntry(e)}
        IN  /\ \A e \in E : UnderOut(e) \in pre.dirs \cup DOMAIN pre.files
            /\ \A e \in M :
                  /\ Cardinality(Occurrences(cmd.args, ModuleMapFlagOf(e))) = 1
                  /\ \A i \in Occurrences(cmd.args, ModuleMapFlagOf(e)) :
                        cmd.args[i - 1] = ArgXcc
            /\ \A e \in S : Cardinality(Occurrences(cmd.args, LinkFlagOf(e))) = 1
            /\ Len(cmd.args) = 4 + 2 * Cardinality(M) + Cardinality(S)
                                 + (IF script_file.some THEN 1 ELSE 0)

C11_Witness ==
    /\ RunArgsBuilt
    /\ out_dir.some
    /\ \E d \in pre.dirs : OutDir \o <<"/">> \o FileName(d) \o <<"/">> \o NestedName \in DOMAIN pre.files
    /\ \E e \in EntryNames(pre.dirs, pre.files, OutDir) : IsModuleDirEntry(e)
    /\ Len(cmd.args) = 6

Failed(o) == Returned(o) /\ result # Ok

WrittenArtifacts == PlannedFiles(NsA) \cup PlannedFiles(NsB)

\* C12: no call removes anything: every directory and file there when an
\* operation is called is there at each of its steps and when it returns,
\* failing or not; a failing compile_bindings or run_script leaves the
\* artifacts write_bindings wrote with their contents; and a write_bindings
\* that fails after the directory creation leaves the module directory.
C12_NoRollback ==
    /\ op # "none" => pre.dirs \subseteq dirs /\ DOMAIN pre.files \subseteq DOMAIN files
    /\ (Failed("compile_bindings") \/ Failed("run_script")) =>
          \A p \in WrittenArtifacts \cap DOMAIN pre.files : files[p] = pre.files[p]
    /\ (Failed("write_bindings") /\ failed_at # "w_create_dir_all") =>
          ExpectedModuleDir(ci.namespace) \in dirs

C12_Witness ==
    /\ Failed("write_bindings")
    /\ failed_at = "w_write_module_map"
    /\ ExpectedModuleDir(ci.namespace) \notin pre.dirs
    /\ ExpectedModuleDir(ci.namespace) \in dirs
    /\ pre.files # <<>>

Untouched(p) ==
    /\ p \in DOMAIN files <=> p \in DOMAIN pre.files
    /\ p \in DOMAIN files => files[p] = pre.files[p]

WriteSteps ==
    <<"w_create_dir_all", "w_generate_bindings", "w_create_header", "w_write_header",
      "w_create_module_map", "w_generate_module_map", "w_write_module_map",
      "w_create_source", "w_write_source">>

StepIndex(step) == CHOOSE i \in 1..Len(WriteSteps) : WriteSteps[i] = step

\* C13: the first failing step ends the operation and nothing after it runs:
\* a write_bindings that failed at a step has touched no file that a later
\* step creates or writes (none at all up to the header's creation, not the
\* module map or the source up to the module map's creation, not the source
\* up to the source's creation); a run_script that failed scanning the
\* directory or reading an entry, and any call that failed to spawn, has
\* started no child; a call that failed waiting has not reported a status.
C13_FirstFailureEnds ==
    /\ Failed("write_bindings") =>
          /\ failed_at \in {WriteSteps[i] : i \in 1..Len(WriteSteps)}
          /\ StepIndex(failed_at) <= 3 => Untouched(ExpectedHeader(ci.namespace))
          /\ StepIndex(failed_at) <= 5 => Untouched(ExpectedModuleMap(ci.namespace))
          /\ StepIndex(failed_at) <= 8 => Untouched(ExpectedSource(ci.namespace))
    /\ (Failed("run_script") /\ failed_at \in {"r_read_dir", "r_entry", "r_spawn"}) =>
          child.state = "none"
    /\ (Failed("compile_bindings") /\ failed_at = "c_spawn") => child.state = "none"
    /\ ((Failed("compile_bindings") \/ Failed("run_script")) /\ failed_at \in {"c_wait", "r_wait"}) =>
          result = IoError

C13_Witness ==
    /\ Failed("run_script")
    /\ failed_at = "r_entry"
    /\ Len(cmd.args) > 4
    /\ child.state = "none"

\* C14: a child is running only while the call that spawned it is blocked in
\* its wait: no operation has returned (or is idle) with a child running, a
\* call reaches its spawn with no child of its own (so it spawns one child
\* and no two are alive together), it reads the status of an exited child,
\* and write_bindings has no child at all.
C14_SpawnWaitPair ==
    /\ pc \in {"idle", "returned"} => child.state # "running"
    /\ child.state = "running" => pc \in {"c_wait", "r_wait"}
    /\ pc \in {"c_spawn", "r_spawn"} => child = NoChild
    /\ pc \in {"c_status", "r_status"} => child.state = "exited"
    /\ op = "write_bindings" => child = NoChild

C14_Witness ==
    /\ Returned("compile_bindings")
    /\ child.state = "exited"
    /\ child.program = Swiftc

\* Namespaces the path arithmetic is compared on, prefixes of one another
\* included.
NsSample == {<<"a">>, <<"b">>, <<"a", "a">>, <<"a", "b">>, <<"b", "a">>}

\* The four paths write_bindings plans for a namespace.
PlannedPaths(out, ns) ==
    { WriteModuleDir(out, ns),
      WriteModuleMapFile(WriteModuleDir(out, ns)),
      WriteHeaderFile(WriteModuleDir(out, ns), ns),
      WriteSourceFile(out, ns) }

OtherNamespaces(ns) == Namespaces \ {ns}

PlannedPathsDisjoint ==
    \A n1, n2 \in NsSample :
        n1 # n2 => PlannedPaths(OutDir, n1) \cap PlannedPaths(OutDir, n2) = {}

\* C15: the four paths planned for two distinct namespaces under one output
\* directory have nothing in common, and throughout a write_bindings call
\* for one namespace the module map, header and source of every other
\* namespace are as they were when the call began (present or absent, and
\* with the same contents), its module directory too.
C15_NamespacesDisjoint ==
    /\ PlannedPathsDisjoint
    /\ op = "write_bindings" =>
          \A n \in OtherNamespaces(ci.namespace) :
              /\ \A p \in PlannedPaths(OutDir, n) \ {WriteModuleDir(OutDir, n)} : Untouched(p)
              /\ \A p \in PlannedFiles(n) : Untouched(p)
              /\ WriteModuleDir(OutDir, n) \in dirs <=> WriteModuleDir(OutDir, n) \in pre.dirs

C15_Witness ==
    /\ WriteOk
    /\ ci.namespace = NsB
    /\ \E c \in DOMAIN first :
          /\ c.namespace = NsA
          /\ \A p \in PlannedFiles(NsA) :
                p \in DOMAIN pre.files /\ pre.files[p] = first[c][p] /\ files[p] = first[c][p]

\* The path an error names, when it names one.
ErrorPath(r) == IF "path" \in DOMAIN r THEN r.path ELSE <<>>

\* The directory or file the failing statement of write_bindings was
\* creating or writing.
FailingPath(step, ns) ==
    CASE step = "w_create_dir_all" -> ExpectedModuleDir(ns)
      [] step \in {"w_create_header", "w_write_header"} -> ExpectedHeader(ns)
      [] step \in {"w_create_module_map", "w_write_module_map"} -> ExpectedModuleMap(ns)
      [] step \in {"w_create_source", "w_write_source"} -> ExpectedSource(ns)
      [] OTHER -> <<>>

IoSteps ==
    {"w_create_dir_all", "w_create_header", "w_write_header", "w_create_module_map",
     "w_write_module_map", "w_create_source", "w_write_source"}

\* C16 as claimed: when write_bindings fails creating the module directory
\* or creating or writing one of the three files, the error it returns is
\* an I/O error that names the path of that directory or file.
C16_IoErrorNamesPath ==
    (Failed("write_bindings") /\ failed_at \in IoSteps) =>
        /\ result.tag = "Io"
        /\ ErrorPath(result) = FailingPath(failed_at, ci.namespace)

\* The path a -fmodule-map-file= token carries.
FlagPath(token) == SubSeq(token, Len(ModuleMapFlagStart) + 1, Len(token))

WrittenBefore(ns) == \E c \in DOMAIN first : c.namespace = ns

SamePathsPlanned ==
    \A ns \in NsSample :
        /\ CompileModuleMapFile(OutDir, ns) = WriteModuleMapFile(WriteModuleDir(OutDir, ns))
        /\ CompileSourceFile(OutDir, ns) = WriteSourceFile(OutDir, ns)

\* C17: the module-map path compile_bindings computes and embeds in
\* -fmodule-map-file=, and the source path it passes last, are the paths
\* write_bindings plans for the same namespace and output directory; so once
\* a write_bindings for the namespace has succeeded, both files named on the
\* swiftc command line exist, and right after a successful write_bindings
\* they hold the module map and the library it wrote.
C17_LayoutAgreement ==
    /\ SamePathsPlanned
    /\ op = "compile_bindings" =>
          /\ Len(cmd.args) = 15
          /\ cmd.args[13] = ArgXcc
          /\ cmd.args[14] = ModuleMapFlagStart \o
                                WriteModuleMapFile(WriteModuleDir(out_dir.path, ci.namespace))
          /\ cmd.args[15] = WriteSourceFile(out_dir.path, ci.namespace)
          /\ WrittenBefore(ci.namespace) =>
                {FlagPath(cmd.args[14]), cmd.args[15]} \subseteq DOMAIN files
    /\ WriteOk =>
          /\ CompileModuleMapFile(out_dir.path, ci.namespace) \in DOMAIN files
          /\ CompileSourceFile(out_dir.path, ci.namespace) \in DOMAIN files
          /\ files[CompileModuleMapFile(out_dir.path, ci.namespace)] = <<module_map>>
          /\ files[CompileSourceFile(out_dir.path, ci.namespace)] = <<library>>

C17_Witness ==
    /\ op = "compile_bindings"
    /\ child.state = "running"
    /\ WrittenBefore(ci.namespace)
    /\ FlagPath(cmd.args[14]) \in DOMAIN files

\* write_bindings has succeeded for ns and a compile has left out/lib<ns>.dylib
\* before the present call.
Built(ns) ==
    /\ WrittenBefore(ns)
    /\ CompileDylibFile(OutDir, ns) \in DOMAIN pre.files

WrittenModuleMapFlag(ns) ==
    ModuleMapFlagStart \o WriteModuleMapFile(WriteModuleDir(OutDir, ns))

\* C18: once write_bindings has succeeded for a namespace and a compile has
\* produced out/lib<namespace>.dylib, the command a later run_script on out
\* builds holds, once, the pair -Xcc -fmodule-map-file=<the module-map path
\* write_bindings wrote, which exists>, and, once, the link flag
\* -l<out>/lib<namespace>.dylib; this for every such namespace.
C18_RunFindsBuiltModules ==
    (RunArgsBuilt /\ out_dir.some) =>
        \A ns \in Namespaces :
            Built(ns) =>
                /\ WriteModuleMapFile(WriteModuleDir(OutDir, ns)) \in DOMAIN files
                /\ Cardinality(Occurrences(cmd.args, WrittenModuleMapFlag(ns))) = 1
                /\ \A i \in Occurrences(cmd.args, WrittenModuleMapFlag(ns)) :
                      i > 1 /\ cmd.args[i - 1] = ArgXcc
                /\ Cardinality(Occurrences(cmd.args,
                                   LinkFlagStart \o CompileDylibFile(OutDir, ns))) = 1

C18_Witness ==
    /\ RunArgsBuilt
    /\ out_dir.some
    /\ Built(NsA)
    /\ child.state = "running"
    /\ Len(cmd.args) >= 7

====
